---- MODULE Spec2Model ----
(***************************************************************************)
(* Invoicing backend: the invoices routes (src/app/routes/invoices.py) and *)
(* the migration units (src/migrations/002..006).  The relational store is *)
(* one record `db`; every handler is a transaction on it.  Text that the   *)
(* code inspects (dates, invoice numbers) is a sequence of one-character   *)
(* strings; money is integral (the seed prices are whole numbers).         *)
(***************************************************************************)
EXTENDS Integers, Sequences, FiniteSets, TLC

VARIABLES db, call, resp, issued, conn

vars == <<db, call, resp, issued, conn>>

(* ------------------------------ bounds --------------------------------- *)
MaxInvoices == 3
MaxItems == 2
MaxSeedRuns == 2
MaxShortRun == 2

(* ------------------------------ text ----------------------------------- *)
DigitChars == <<"0", "1", "2", "3", "4", "5", "6", "7", "8", "9">>

IsDigit(c) == \E i \in 1..10 : DigitChars[i] = c

DigitVal(c) == (CHOOSE i \in 1..10 : DigitChars[i] = c) - 1

\* code point of a character, for Python's string ordering
Ord(c) ==
    IF IsDigit(c) THEN 48 + DigitVal(c)
    ELSE IF c = "-" THEN 45
    ELSE IF c = "I" THEN 73
    ELSE IF c = "N" THEN 78
    ELSE 86

RECURSIVE StrLess(_, _)
\* Python `a < b` on str: lexicographic by code point, a proper prefix is less
StrLess(a, b) ==
    IF b = <<>> THEN FALSE
    ELSE IF a = <<>> THEN TRUE
    ELSE IF Ord(Head(a)) # Ord(Head(b)) THEN Ord(Head(a)) < Ord(Head(b))
    ELSE StrLess(Tail(a), Tail(b))

RECURSIVE Split(_, _)
\* Python s.split(sep): the list of the pieces between separators
Split(s, sep) ==
    IF \A i \in 1..Len(s) : s[i] # sep THEN <<s>>
    ELSE LET k == CHOOSE i \in 1..Len(s) :
                     s[i] = sep /\ \A j \in 1..(i - 1) : s[j] # sep
         IN <<SubSeq(s, 1, k - 1)>> \o Split(SubSeq(s, k + 1, Len(s)), sep)

\* SQLite SUBSTR(x, start): from the start-th character to the end
Substr(s, start) == SubSeq(s, start, Len(s))

RECURSIVE CastInteger(_, _)
\* SQLite CAST(text AS INTEGER): the value of the longest leading run of digits
CastInteger(s, acc) ==
    IF s = <<>> \/ ~IsDigit(Head(s)) THEN acc
    ELSE CastInteger(Tail(s), 10 * acc + DigitVal(Head(s)))

RECURSIVE Decimal(_)
\* the decimal digits of n, no padding
Decimal(n) ==
    IF n < 10 THEN <<DigitChars[n + 1]>>
    ELSE Decimal(n \div 10) \o <<DigitChars[(n % 10) + 1]>>

RECURSIVE ZeroPad(_, _)
ZeroPad(s, width) == IF Len(s) >= width THEN s ELSE ZeroPad(<<"0">> \o s, width)

\* f"INV-{n:03d}"
FormatInvoiceNo(n) == <<"I", "N", "V", "-">> \o ZeroPad(Decimal(n), 3)

(* ------------------------------ store ---------------------------------- *)
M002 == "002_create_products_table"
M003 == "003_create_clients_table"
M004 == "004_create_invoices_table"
M005 == "005_create_invoice_items_table"
M006 == "006_seed_products_and_clients"

Units == {M002, M003, M004, M005, M006}

DataTables == {"products", "clients", "invoices", "invoice_items"}

\* the table a schema unit creates
TableOf(m) ==
    CASE m = M002 -> "products"
      [] m = M003 -> "clients"
      [] m = M004 -> "invoices"
      [] OTHER -> "invoice_items"

SeedProducts ==
    << <<"Web Development", 5000>>,
       <<"Mobile App Development", 8000>>,
       <<"UI/UX Design", 2500>>,
       <<"Cloud Infrastructure Setup", 3500>>,
       <<"Database Design & Optimization", 2000>>,
       <<"Technical Consulting", 150>>,
       <<"Quality Assurance Testing", 1500>>,
       <<"Maintenance & Support", 1000>> >>

SeedClients ==
    << <<"Acme Corporation", "123 Business Ave, New York, NY 10001", "ACM-2024-001">>,
       <<"TechStart Inc.", "456 Innovation Blvd, San Francisco, CA 94105", "TECH-2024-002">>,
       <<"Global Solutions Ltd.", "789 Commerce Street, London, UK SW1A 1AA", "GLOB-2024-003">>,
       <<"Bright Ventures LLC", "321 Enterprise Way, Austin, TX 78701", "BRIT-2024-004">>,
       <<"Coastal Trading Co.", "654 Harbor Road, Miami, FL 33101", "COAST-2024-005">> >>

\* a database file on which no unit has been applied
EmptyDb ==
    [tables |-> {}, ledger |-> {},
     products |-> {}, clients |-> {}, invoices |-> {}, invoice_items |-> {},
     seq |-> [t \in DataTables |-> 0]]

RowWithId(rows, id) == CHOOSE r \in rows : r.id = id

HasId(rows, id) == \E r \in rows : r.id = id

RECURSIVE SortById(_)
\* ORDER BY id
SortById(rows) ==
    IF rows = {} THEN <<>>
    ELSE LET r == CHOOSE x \in rows : \A y \in rows : x.id <= y.id
         IN <<r>> \o SortById(rows \ {r})

RECURSIVE SortByIdDesc(_)
\* ORDER BY id DESC
SortByIdDesc(rows) ==
    IF rows = {} THEN <<>>
    ELSE LET r == CHOOSE x \in rows : \A y \in rows : x.id >= y.id
         IN <<r>> \o SortByIdDesc(rows \ {r})

(* ----------------------------- responses ------------------------------- *)
NoBody == <<>>

Pending == [status |-> 0, detail |-> <<"pending", 0>>, body |-> NoBody]

HttpError(status, msg, n) == [status |-> status, detail |-> <<msg, n>>, body |-> NoBody]

\* except Exception as e: HTTPException(500, f"Database error: {e}")
DatabaseError == HttpError(500, "Database error", 0)

Ok(status, body) == [status |-> status, detail |-> <<"", 0>>, body |-> body]

(* ------------------------- invoice numbering --------------------------- *)
Max(S) == CHOOSE x \in S : \A y \in S : y <= x

\* numbering by row count instead of by the largest number
MaxInvoiceNumberByCount(d) == Cardinality(d.invoices)

\* SELECT COALESCE(MAX(CAST(SUBSTR(invoice_no, 5) AS INTEGER)), 0) FROM invoices
MaxInvoiceNumber(d) ==
    IF d.invoices = {} THEN 0
    ELSE Max({CastInteger(Substr(r.invoice_no, 5), 0) : r \in d.invoices})

GetNextInvoiceNumber(d) == FormatInvoiceNo(MaxInvoiceNumber(d) + 1)

(* ----------------------------- validation ------------------------------ *)
NoError == HttpError(0, "", 0)

RECURSIVE ValidateItemsNoProductCheck(_, _, _)
\* the item loop without the product lookup
ValidateItemsNoProductCheck(d, items, pos) ==
    IF pos > Len(items) THEN NoError
    ELSE IF items[pos].quantity <= 0
         THEN HttpError(400, "Item N: Quantity must be greater than 0", pos)
    ELSE ValidateItemsNoProductCheck(d, items, pos + 1)

RECURSIVE ValidateItemsZeroBased(_, _, _)
\* the item loop reporting idx where the code reports idx + 1
ValidateItemsZeroBased(d, items, pos) ==
    IF pos > Len(items) THEN NoError
    ELSE IF items[pos].quantity <= 0
         THEN HttpError(400, "Item N: Quantity must be greater than 0", pos - 1)
    ELSE IF "products" \notin d.tables THEN DatabaseError
    ELSE IF ~HasId(d.products, items[pos].product_id)
         THEN HttpError(400, "Product N not found", items[pos].product_id)
    ELSE ValidateItemsZeroBased(d, items, pos + 1)

RECURSIVE ValidateItems(_, _, _)
\* the loop over enumerate(invoice.items); pos is idx + 1
ValidateItems(d, items, pos) ==
    IF pos > Len(items) THEN NoError
    ELSE IF items[pos].quantity <= 0
         THEN HttpError(400, "Item N: Quantity must be greater than 0", pos)
    ELSE IF "products" \notin d.tables THEN DatabaseError
    ELSE IF ~HasId(d.products, items[pos].product_id)
         THEN HttpError(400, "Product N not found", items[pos].product_id)
    ELSE ValidateItems(d, items, pos + 1)

\* the checks with the tax check moved ahead of the client lookup
ValidateInvoiceInputTaxFirst(d, invoice) ==
    IF Len(Split(invoice.issue_date, "-")) # 3 \/ Len(Split(invoice.due_date, "-")) # 3
    THEN HttpError(400, "Dates must be in format YYYY-MM-DD", 0)
    ELSE IF StrLess(invoice.due_date, invoice.issue_date)
    THEN HttpError(400, "Due date must be after or equal to issue date", 0)
    ELSE IF invoice.tax < 0
    THEN HttpError(400, "Tax cannot be negative", 0)
    ELSE IF "clients" \notin d.tables THEN DatabaseError
    ELSE IF ~HasId(d.clients, invoice.client_id)
    THEN HttpError(400, "Client N not found", invoice.client_id)
    ELSE IF invoice.items = <<>>
    THEN HttpError(400, "Invoice must have at least one item", 0)
    ELSE ValidateItems(d, invoice.items, 1)

ValidateInvoiceInput(d, invoice) ==
    IF Len(Split(invoice.issue_date, "-")) # 3 \/ Len(Split(invoice.due_date, "-")) # 3
    THEN HttpError(400, "Dates must be in format YYYY-MM-DD", 0)
    ELSE IF StrLess(invoice.due_date, invoice.issue_date)
    THEN HttpError(400, "Due date must be after or equal to issue date", 0)
    ELSE IF "clients" \notin d.tables THEN DatabaseError
    ELSE IF ~HasId(d.clients, invoice.client_id)
    THEN HttpError(400, "Client N not found", invoice.client_id)
    ELSE IF invoice.items = <<>>
    THEN HttpError(400, "Invoice must have at least one item", 0)
    ELSE IF invoice.tax < 0
    THEN HttpError(400, "Tax cannot be negative", 0)
    ELSE ValidateItems(d, invoice.items, 1)

(* ------------------------------- reads --------------------------------- *)
\* the item rows with the price taken from the product row, not from the item
ItemsResponseLivePrice(d, invoice_id) ==
    LET joined == {ii \in d.invoice_items :
                       ii.invoice_id = invoice_id /\ HasId(d.products, ii.product_id)}
        sorted == SortById(joined)
    IN [k \in 1..Len(sorted) |->
           [id |-> sorted[k].id,
            product_id |-> sorted[k].product_id,
            product_name |-> RowWithId(d.products, sorted[k].product_id).name,
            quantity |-> sorted[k].quantity,
            unit_price |-> RowWithId(d.products, sorted[k].product_id).price,
            subtotal |-> RowWithId(d.products, sorted[k].product_id).price
                             * sorted[k].quantity]]

\* the item rows of an invoice joined with their products, ORDER BY ii.id
ItemsResponse(d, invoice_id) ==
    LET joined == {ii \in d.invoice_items :
                       ii.invoice_id = invoice_id /\ HasId(d.products, ii.product_id)}
        sorted == SortById(joined)
    IN [k \in 1..Len(sorted) |->
           [id |-> sorted[k].id,
            product_id |-> sorted[k].product_id,
            product_name |-> RowWithId(d.products, sorted[k].product_id).name,
            quantity |-> sorted[k].quantity,
            unit_price |-> sorted[k].unit_price,
            subtotal |-> sorted[k].subtotal]]

\* the invoice rows with this id joined with their clients
InvoiceJoinClient(d, invoice_id) ==
    {i \in d.invoices : i.id = invoice_id /\ HasId(d.clients, i.client_id)}

InvoiceResponse(d, invoice_row) ==
    LET c == RowWithId(d.clients, invoice_row.client_id)
    IN [id |-> invoice_row.id,
        invoice_no |-> invoice_row.invoice_no,
        issue_date |-> invoice_row.issue_date,
        due_date |-> invoice_row.due_date,
        client |-> [id |-> c.id, name |-> c.name, address |-> c.address,
                    company_registration_no |-> c.company_registration_no],
        address |-> invoice_row.address,
        items |-> ItemsResponse(d, invoice_row.id),
        tax |-> invoice_row.tax,
        total |-> invoice_row.total]

GetInvoiceTxn(d, invoice_id) ==
    IF ~({"invoices", "clients"} \subseteq d.tables) THEN DatabaseError
    ELSE IF InvoiceJoinClient(d, invoice_id) = {}
    THEN HttpError(404, "Invoice not found", 0)
    ELSE IF ~({"invoice_items", "products"} \subseteq d.tables) THEN DatabaseError
    ELSE Ok(200, InvoiceResponse(d, CHOOSE i \in InvoiceJoinClient(d, invoice_id) : TRUE))

\* the list without DESC
ListInvoicesAscending(d) ==
    IF ~({"invoices", "clients"} \subseteq d.tables) THEN DatabaseError
    ELSE LET joined == {i \in d.invoices : HasId(d.clients, i.client_id)}
             rows == SortById(joined)
         IN Ok(200, [k \in 1..Len(rows) |->
                       [id |-> rows[k].id,
                        invoice_no |-> rows[k].invoice_no,
                        issue_date |-> rows[k].issue_date,
                        due_date |-> rows[k].due_date,
                        client_name |-> RowWithId(d.clients, rows[k].client_id).name,
                        total |-> rows[k].total]])

ListInvoicesTxn(d) ==
    IF ~({"invoices", "clients"} \subseteq d.tables) THEN DatabaseError
    ELSE LET joined == {i \in d.invoices : HasId(d.clients, i.client_id)}
             rows == SortByIdDesc(joined)
         IN Ok(200, [k \in 1..Len(rows) |->
                       [id |-> rows[k].id,
                        invoice_no |-> rows[k].invoice_no,
                        issue_date |-> rows[k].issue_date,
                        due_date |-> rows[k].due_date,
                        client_name |-> RowWithId(d.clients, rows[k].client_id).name,
                        total |-> rows[k].total]])

(* ------------------------------- create -------------------------------- *)
RECURSIVE InvoiceSubtotalNoQuantity(_, _)
\* the sum of the prices, the quantity forgotten
InvoiceSubtotalNoQuantity(d, items) ==
    IF items = <<>> THEN 0
    ELSE RowWithId(d.products, Head(items).product_id).price
         + InvoiceSubtotalNoQuantity(d, Tail(items))

RECURSIVE InvoiceSubtotal(_, _)
\* subtotal += product_price * item.quantity, over the request's items in order
InvoiceSubtotal(d, items) ==
    IF items = <<>> THEN 0
    ELSE RowWithId(d.products, Head(items).product_id).price * Head(items).quantity
         + InvoiceSubtotal(d, Tail(items))

\* the invoice_items rows inserted for a request, ids taken from the sequence
NewItemRows(d, invoice_id, items) ==
    {[id |-> d.seq["invoice_items"] + k,
      invoice_id |-> invoice_id,
      product_id |-> items[k].product_id,
      quantity |-> items[k].quantity,
      unit_price |-> RowWithId(d.products, items[k].product_id).price,
      subtotal |-> RowWithId(d.products, items[k].product_id).price * items[k].quantity]
     : k \in 1..Len(items)}

NewInvoiceRow(d, invoice) ==
    [id |-> d.seq["invoices"] + 1,
     invoice_no |-> GetNextInvoiceNumber(d),
     issue_date |-> invoice.issue_date,
     due_date |-> invoice.due_date,
     client_id |-> invoice.client_id,
     address |-> RowWithId(d.clients, invoice.client_id).address,
     tax |-> invoice.tax,
     total |-> InvoiceSubtotal(d, invoice.items) + invoice.tax]

\* the whole transaction of create_invoice: the store it commits and its response
CreateInvoiceTxn(d, invoice) ==
    LET v == ValidateInvoiceInput(d, invoice) IN
    IF v # NoError THEN [db |-> d, resp |-> v]
    ELSE IF \/ ~(DataTables \subseteq d.tables)
            \/ \E k \in 1..Len(invoice.items) :
                   ~HasId(d.products, invoice.items[k].product_id)
            \/ \E r \in d.invoices : r.invoice_no = GetNextInvoiceNumber(d)
    THEN [db |-> d, resp |-> DatabaseError]
    ELSE LET row == NewInvoiceRow(d, invoice)
             after == [d EXCEPT
                         !.invoices = @ \cup {row},
                         !.invoice_items = @ \cup NewItemRows(d, row.id, invoice.items),
                         !.seq = [@ EXCEPT !["invoices"] = row.id,
                                           !["invoice_items"] = @ + Len(invoice.items)]]
         IN [db |-> after, resp |-> Ok(201, InvoiceResponse(after, row))]

(* ------------------------------- delete -------------------------------- *)
\* the delete with DELETE FROM invoice_items lacking its WHERE
DeleteInvoiceAllItems(d, invoice_id) ==
    IF "invoices" \notin d.tables THEN [db |-> d, resp |-> DatabaseError]
    ELSE IF ~HasId(d.invoices, invoice_id)
    THEN [db |-> d, resp |-> HttpError(404, "Invoice not found", 0)]
    ELSE IF "invoice_items" \notin d.tables THEN [db |-> d, resp |-> DatabaseError]
    ELSE [db |-> [d EXCEPT
                    !.invoice_items = {},
                    !.invoices = {i \in @ : i.id # invoice_id}],
          resp |-> Ok(204, NoBody)]

\* the delete without the DELETE FROM invoice_items
DeleteInvoiceKeepItems(d, invoice_id) ==
    IF "invoices" \notin d.tables THEN [db |-> d, resp |-> DatabaseError]
    ELSE IF ~HasId(d.invoices, invoice_id)
    THEN [db |-> d, resp |-> HttpError(404, "Invoice not found", 0)]
    ELSE [db |-> [d EXCEPT !.invoices = {i \in @ : i.id # invoice_id}],
          resp |-> Ok(204, NoBody)]

DeleteInvoiceTxn(d, invoice_id) ==
    IF "invoices" \notin d.tables THEN [db |-> d, resp |-> DatabaseError]
    ELSE IF ~HasId(d.invoices, invoice_id)
    THEN [db |-> d, resp |-> HttpError(404, "Invoice not found", 0)]
    ELSE IF "invoice_items" \notin d.tables THEN [db |-> d, resp |-> DatabaseError]
    ELSE [db |-> [d EXCEPT
                    !.invoice_items = {ii \in @ : ii.invoice_id # invoice_id},
                    !.invoices = {i \in @ : i.id # invoice_id}],
          resp |-> Ok(204, NoBody)]

(* ----------------------------- migrations ------------------------------ *)
Outcome(msg) == [status |-> 0, detail |-> <<msg, 0>>, body |-> NoBody]

\* upgrade() of a schema unit (002..005): ledger check, CREATE TABLE IF NOT
\* EXISTS, ledger row, commit
UpgradeSchemaTxn(d, m) ==
    IF m \in d.ledger THEN [db |-> d, resp |-> Outcome("already applied")]
    ELSE [db |-> [d EXCEPT !.tables = @ \cup {TableOf(m)}, !.ledger = @ \cup {m}],
          resp |-> Outcome("applied")]

\* downgrade() of a schema unit: DROP TABLE IF EXISTS (rows and the table's
\* AUTOINCREMENT counter go with it), ledger row removed, commit
DowngradeSchemaTxn(d, m) ==
    LET t == TableOf(m) IN
    [db |-> [d EXCEPT !.tables = @ \ {t},
                      ![t] = {},
                      !.seq = [@ EXCEPT ![t] = 0],
                      !.ledger = @ \ {m}],
     resp |-> Outcome("reverted")]

\* the seed unit without its ledger check
UpgradeSeedNoLedgerCheck(d) ==
    IF ~({"products", "clients"} \subseteq d.tables)
    THEN [db |-> d, resp |-> Outcome("exception")]
    ELSE [db |-> [d EXCEPT
                    !.products = @ \cup
                        {[id |-> d.seq["products"] + k,
                          name |-> SeedProducts[k][1],
                          price |-> SeedProducts[k][2]] : k \in 1..Len(SeedProducts)},
                    !.clients = @ \cup
                        {[id |-> d.seq["clients"] + k,
                          name |-> SeedClients[k][1],
                          address |-> SeedClients[k][2],
                          company_registration_no |-> SeedClients[k][3]]
                         : k \in 1..Len(SeedClients)},
                    !.seq = [@ EXCEPT !["products"] = @ + Len(SeedProducts),
                                      !["clients"] = @ + Len(SeedClients)],
                    !.ledger = @ \cup {M006}],
          resp |-> Outcome("applied")]

\* upgrade() of 006: ledger check, the two executemany inserts, ledger row,
\* commit; an exception before the commit persists nothing
UpgradeSeedTxn(d) ==
    IF M006 \in d.ledger THEN [db |-> d, resp |-> Outcome("already applied")]
    ELSE IF ~({"products", "clients"} \subseteq d.tables)
    THEN [db |-> d, resp |-> Outcome("exception")]
    ELSE [db |-> [d EXCEPT
                    !.products = @ \cup
                        {[id |-> d.seq["products"] + k,
                          name |-> SeedProducts[k][1],
                          price |-> SeedProducts[k][2]] : k \in 1..Len(SeedProducts)},
                    !.clients = @ \cup
                        {[id |-> d.seq["clients"] + k,
                          name |-> SeedClients[k][1],
                          address |-> SeedClients[k][2],
                          company_registration_no |-> SeedClients[k][3]]
                         : k \in 1..Len(SeedClients)},
                    !.seq = [@ EXCEPT !["products"] = @ + Len(SeedProducts),
                                      !["clients"] = @ + Len(SeedClients)],
                    !.ledger = @ \cup {M006}],
          resp |-> Outcome("applied")]

\* downgrade() of 006: DELETE FROM products, DELETE FROM clients, ledger row
\* removed, commit
DowngradeSeedTxn(d) ==
    IF ~({"products", "clients"} \subseteq d.tables)
    THEN [db |-> d, resp |-> Outcome("exception")]
    ELSE [db |-> [d EXCEPT !.products = {}, !.clients = {}, !.ledger = @ \ {M006}],
          resp |-> Outcome("reverted")]

UpgradeTxn(d, m) == IF m = M006 THEN UpgradeSeedTxn(d) ELSE UpgradeSchemaTxn(d, m)

DowngradeTxn(d, m) == IF m = M006 THEN DowngradeSeedTxn(d) ELSE DowngradeSchemaTxn(d, m)

(* ------------------------------- inputs -------------------------------- *)
D1 == <<"2", "0", "2", "4", "-", "0", "3", "-", "0", "1">>
D2 == <<"2", "0", "2", "4", "-", "0", "3", "-", "1", "0">>
DBad == <<"2", "0", "2", "4", "-", "0", "3", "1", "0">>

SeqsUpTo(S, n) == UNION {[1..k -> S] : k \in 0..n}

Item(p, q) == [product_id |-> p, quantity |-> q]

\* requests of the long-running specifications: well-formed, of one to
\* MaxItems items, for a client of the first or of the second seeding
Requests ==
    [client_id : {1, 6}, issue_date : {D1}, due_date : {D2}, tax : {5},
     items : SeqsUpTo({Item(1, 2)}, MaxItems) \ {<<>>}]

\* requests of the single-call specification: every combination of rule
\* violations
AllRequests ==
    [client_id : {1, 99}, issue_date : {D1, D2, DBad}, due_date : {D1, D2, DBad},
     tax : {-1, 0, 5},
     items : SeqsUpTo({Item(1, 2), Item(6, 1), Item(1, 0), Item(99, 1), Item(99, 0)},
                      MaxItems)]

\* ids a client may ask for: every id the bound lets exist, and one more
InvoiceIds == 1..(MaxInvoices + 1)

(* ------------------------------- stores -------------------------------- *)
\* the database once the four schema units have run
SchemaDb ==
    UpgradeSchemaTxn(UpgradeSchemaTxn(UpgradeSchemaTxn(UpgradeSchemaTxn(
        EmptyDb, M002).db, M003).db, M004).db, M005).db

\* ... and the seed unit
SeededDb == UpgradeSeedTxn(SchemaDb).db

\* the seeded store after n creates of one request (client 1, one item of
\* product 1) and the deletion of all but the last invoice
StoreAfter(n) ==
    [SeededDb EXCEPT
       !.invoices = {[id |-> n, invoice_no |-> FormatInvoiceNo(n),
                      issue_date |-> D1, due_date |-> D2, client_id |-> 1,
                      address |-> SeedClients[1][2], tax |-> 5,
                      total |-> 2 * SeedProducts[1][2] + 5]},
       !.invoice_items = {[id |-> n, invoice_id |-> n, product_id |-> 1, quantity |-> 2,
                           unit_price |-> SeedProducts[1][2],
                           subtotal |-> 2 * SeedProducts[1][2]]},
       !.seq = [@ EXCEPT !["invoices"] = n, !["invoice_items"] = n]]

PriorNumbers == {1, 9, 99, 999}

OneStores ==
    {SchemaDb, SeededDb, DowngradeSeedTxn(StoreAfter(1)).db}
        \cup {StoreAfter(n) : n \in PriorNumbers}

(* ------------------------------ sessions ------------------------------- *)
\* the requests in flight: each holds its own connection
Procs == {1, 2}

NoInvoice == [client_id |-> 0, issue_date |-> <<>>, due_date |-> <<>>, tax |-> 0,
              items |-> <<>>]

\* a connection with no request on it
Idle == [pc |-> "idle", invoice |-> NoInvoice, address |-> "", invoice_no |-> <<>>,
         total |-> 0, resp |-> Pending]

NoSessions == [p \in Procs |-> Idle]

(* ------------------------------- actions ------------------------------- *)
CreateInvoice(invoice) ==
    LET r == CreateInvoiceTxn(db, invoice) IN
    /\ db' = r.db
    /\ call' = [op |-> "create_invoice", arg |-> invoice]
    /\ resp' = r.resp
    /\ issued' = IF r.resp.status = 201
                 THEN Append(issued, r.resp.body.invoice_no) ELSE issued
    /\ UNCHANGED conn

DeleteInvoice(invoice_id) ==
    LET r == DeleteInvoiceTxn(db, invoice_id) IN
    /\ db' = r.db
    /\ call' = [op |-> "delete_invoice", arg |-> invoice_id]
    /\ resp' = r.resp
    /\ UNCHANGED <<issued, conn>>

GetInvoice(invoice_id) ==
    /\ call' = [op |-> "get_invoice", arg |-> invoice_id]
    /\ resp' = GetInvoiceTxn(db, invoice_id)
    /\ UNCHANGED <<db, issued, conn>>

ListInvoices ==
    /\ call' = [op |-> "list_invoices", arg |-> 0]
    /\ resp' = ListInvoicesTxn(db)
    /\ UNCHANGED <<db, issued, conn>>

Upgrade(m) ==
    LET r == UpgradeTxn(db, m) IN
    /\ m = M006 /\ m \notin db.ledger
          => /\ db.seq["products"] < Len(SeedProducts) * MaxSeedRuns
             /\ db.seq["clients"] < Len(SeedClients) * MaxSeedRuns
    /\ db' = r.db
    /\ call' = [op |-> "upgrade", arg |-> m]
    /\ resp' = r.resp
    /\ UNCHANGED <<issued, conn>>

Downgrade(m) ==
    LET r == DowngradeTxn(db, m) IN
    /\ db' = r.db
    /\ call' = [op |-> "downgrade", arg |-> m]
    /\ resp' = r.resp
    /\ UNCHANGED <<issued, conn>>

NoCall == [op |-> "none", arg |-> 0]

(* ---- the service on a migrated database, with the seed unit's runs ---- *)
Init ==
    /\ db = SchemaDb
    /\ call = NoCall
    /\ resp = Pending
    /\ issued = <<>>
    /\ conn = NoSessions

CreateStep == \E invoice \in Requests :
                  db.seq["invoices"] < MaxInvoices /\ CreateInvoice(invoice)

DeleteStep == \E id \in InvoiceIds : DeleteInvoice(id)

GetStep == \E id \in InvoiceIds : GetInvoice(id)

SeedUp == Upgrade(M006)

SeedDown == Downgrade(M006)

Next == CreateStep \/ DeleteStep \/ GetStep \/ ListInvoices \/ SeedUp \/ SeedDown

Spec == Init /\ [][Next]_vars

(* ---- the service alone, on the seeded database ---- *)
InitApi ==
    /\ db = SeededDb
    /\ call = NoCall
    /\ resp = Pending
    /\ issued = <<>>
    /\ conn = NoSessions

NextApi == CreateStep \/ DeleteStep \/ GetStep \/ ListInvoices

SpecApi == InitApi /\ [][NextApi]_vars

(* ---- one create_invoice call, on each store and each request ---- *)
InitOne ==
    /\ db \in OneStores
    /\ call \in [op : {"create_invoice"}, arg : AllRequests]
    /\ resp = Pending
    /\ issued = <<>>
    /\ conn = NoSessions

HandleCreate == resp = Pending /\ CreateInvoice(call.arg)

NextOne == HandleCreate

SpecOne == InitOne /\ [][NextOne]_vars

(* ---- the migration units on a new database ---- *)
InitMig ==
    /\ db = EmptyDb
    /\ call = NoCall
    /\ resp = Pending
    /\ issued = <<>>
    /\ conn = NoSessions

UpgradeStep == \E m \in Units : Upgrade(m)

DowngradeStep == \E m \in Units : Downgrade(m)

NextMig == UpgradeStep \/ DowngradeStep

SpecMig == InitMig /\ [][NextMig]_vars

(* ---- create_invoice step by step, on two connections at once ---- *)
\* the invoices table without UNIQUE on invoice_no
InvoiceNoTakenNever(d, invoice_no) == FALSE

\* invoice_no TEXT NOT NULL UNIQUE: the INSERT raises when the number is there
InvoiceNoTaken(d, invoice_no) == \E r \in d.invoices : r.invoice_no = invoice_no

\* the connection that holds the database's write lock, 0 when none does
Writer == IF \E p \in Procs : conn[p].pc = "inserted"
          THEN CHOOSE p \in Procs : conn[p].pc = "inserted" ELSE 0

Finish(p, response) == [conn EXCEPT ![p].pc = "done", ![p].resp = response]

\* validate_invoice_input, the address and number reads and the total loop:
\* SELECTs only, each seeing what is committed when it runs
BeginCreate(p, invoice) ==
    /\ conn[p].pc \in {"idle", "done"}
    /\ db.seq["invoices"] < MaxShortRun
    /\ LET v == ValidateInvoiceInput(db, invoice) IN
       conn' = IF v # NoError
               THEN [conn EXCEPT ![p] = [Idle EXCEPT !.pc = "done", !.invoice = invoice,
                                                     !.resp = v]]
               ELSE [conn EXCEPT ![p] =
                        [pc |-> "read", invoice |-> invoice,
                         address |-> RowWithId(db.clients, invoice.client_id).address,
                         invoice_no |-> GetNextInvoiceNumber(db),
                         total |-> InvoiceSubtotal(db, invoice.items) + invoice.tax,
                         resp |-> Pending]]
    /\ UNCHANGED <<db, call, resp, issued>>

\* INSERT INTO invoices: takes the write lock; a number already in the table
\* raises, the request ends with 500 and its transaction is rolled back
InsertInvoice(p) ==
    /\ conn[p].pc = "read"
    /\ Writer = 0
    /\ conn' = IF InvoiceNoTaken(db, conn[p].invoice_no)
               THEN Finish(p, DatabaseError)
               ELSE [conn EXCEPT ![p].pc = "inserted"]
    /\ UNCHANGED <<db, call, resp, issued>>

\* INSERT INTO invoices while the other connection holds the write lock and
\* the busy timeout runs out: "database is locked", 500
InsertLocked(p) ==
    /\ conn[p].pc = "read"
    /\ Writer \notin {0, p}
    /\ conn' = Finish(p, DatabaseError)
    /\ UNCHANGED <<db, call, resp, issued>>

\* the item loop (a second price lookup per item), the re-read and the commit
InsertItemsAndCommit(p) ==
    /\ conn[p].pc = "inserted"
    /\ LET c == conn[p]
           row == [id |-> db.seq["invoices"] + 1,
                   invoice_no |-> c.invoice_no,
                   issue_date |-> c.invoice.issue_date,
                   due_date |-> c.invoice.due_date,
                   client_id |-> c.invoice.client_id,
                   address |-> c.address,
                   tax |-> c.invoice.tax,
                   total |-> c.total]
           after == [db EXCEPT
                       !.invoices = @ \cup {row},
                       !.invoice_items = @ \cup NewItemRows(db, row.id, c.invoice.items),
                       !.seq = [@ EXCEPT !["invoices"] = row.id,
                                         !["invoice_items"] = @ + Len(c.invoice.items)]]
       IN /\ db' = after
          /\ conn' = Finish(p, Ok(201, InvoiceResponse(after, row)))
          /\ issued' = Append(issued, c.invoice_no)
    /\ UNCHANGED <<call, resp>>

\* the request of the short-run specifications: valid, two items of two products
ShortRequests ==
    [client_id : {1}, issue_date : {D1}, due_date : {D2}, tax : {5},
     items : {<<Item(1, 2), Item(6, 1)>>}]

PriceInputs == {5000, 6000}

\* another connection's UPDATE products SET price = ... WHERE id = ...
ChangePrice(product_id, price) ==
    /\ Writer = 0
    /\ HasId(db.products, product_id)
    /\ db' = [db EXCEPT !.products =
                 {IF r.id = product_id THEN [r EXCEPT !.price = price] ELSE r : r \in @}]
    /\ call' = [op |-> "change_price", arg |-> product_id]
    /\ resp' = Outcome("updated")
    /\ UNCHANGED <<issued, conn>>

AddressInputs == {"123 Business Ave, New York, NY 10001", "9 Harbour Lane, Boston, MA 02110"}

\* another connection's UPDATE clients SET address = ... WHERE id = ...
ChangeAddress(client_id, address) ==
    /\ Writer = 0
    /\ HasId(db.clients, client_id)
    /\ db' = [db EXCEPT !.clients =
                 {IF r.id = client_id THEN [r EXCEPT !.address = address] ELSE r : r \in @}]
    /\ call' = [op |-> "change_address", arg |-> client_id]
    /\ resp' = Outcome("updated")
    /\ UNCHANGED <<issued, conn>>

InitConc ==
    /\ db = SeededDb
    /\ call = NoCall
    /\ resp = Pending
    /\ issued = <<>>
    /\ conn = NoSessions

BeginStep == \E p \in Procs : \E invoice \in ShortRequests : BeginCreate(p, invoice)

InsertStep == \E p \in Procs : InsertInvoice(p)

LockedStep == \E p \in Procs : InsertLocked(p)

CommitStep == \E p \in Procs : InsertItemsAndCommit(p)

ConcDeleteStep == \E id \in InvoiceIds : Writer = 0 /\ DeleteInvoice(id)

PriceStep == \E price \in PriceInputs : ChangePrice(1, price)

NextConc ==
    BeginStep \/ InsertStep \/ LockedStep \/ CommitStep \/ ConcDeleteStep \/ PriceStep

SpecConc == InitConc /\ [][NextConc]_vars

(* ---- the service while prices and addresses are edited ---- *)
InitSnap ==
    /\ db = SeededDb
    /\ call = NoCall
    /\ resp = Pending
    /\ issued = <<>>
    /\ conn = NoSessions

ShortCreateStep == \E invoice \in ShortRequests :
                       /\ db.seq["invoices"] < MaxShortRun
                       /\ db.seq["invoice_items"] < MaxShortRun * MaxItems
                       /\ CreateInvoice(invoice)

AddressStep == \E address \in AddressInputs : ChangeAddress(1, address)

NextSnap == ShortCreateStep \/ GetStep \/ PriceStep \/ AddressStep

SpecSnap == InitSnap /\ [][NextSnap]_vars

(* ---- the service while the invoices table is dropped and recreated ---- *)
InitOrphan ==
    /\ db = SeededDb
    /\ call = NoCall
    /\ resp = Pending
    /\ issued = <<>>
    /\ conn = NoSessions

InvoicesUp == Upgrade(M004)

InvoicesDown == Downgrade(M004)

\* dropping the table restarts the invoice ids and not the item ids
OrphanCreateStep == \E invoice \in ShortRequests :
                        /\ db.seq["invoices"] < MaxShortRun
                        /\ db.seq["invoice_items"] < (MaxShortRun + 1) * MaxItems
                        /\ CreateInvoice(invoice)

NextOrphan == OrphanCreateStep \/ DeleteStep \/ InvoicesUp \/ InvoicesDown

SpecOrphan == InitOrphan /\ [][NextOrphan]_vars

(* ======================= properties of the service ===================== *)
RECURSIVE Pow10(_)
Pow10(k) == IF k = 0 THEN 1 ELSE 10 * Pow10(k - 1)

RECURSIVE SumTo(_, _)
\* f[1] + ... + f[n]
SumTo(f, n) == IF n = 0 THEN 0 ELSE SumTo(f, n - 1) + f[n]

\* the number a string of decimal digits denotes
DecValue(s) == SumTo([i \in 1..Len(s) |-> DigitVal(s[i]) * Pow10(Len(s) - i)], Len(s))

\* the numeric suffix of an invoice number "INV-<digits>"
SuffixOf(no) == DecValue(SubSeq(no, 5, Len(no)))

Created == call.op = "create_invoice" /\ resp.status = 201

\* C1: the numeric suffixes of the invoice numbers assigned by successive
\* successful creates are strictly increasing (so no number is assigned
\* twice), whatever deletes happen in between.
NumbersStrictlyIncreasing ==
    \A i \in 1..Len(issued) : \A j \in 1..Len(issued) :
        i < j => SuffixOf(issued[i]) < SuffixOf(issued[j])

PriceOf(product_id) == (CHOOSE p \in db.products : p.id = product_id).price

\* tax + sum over the request's items of quantity * product price
ExpectedTotal(invoice) ==
    invoice.tax
    + SumTo([k \in 1..Len(invoice.items) |->
                invoice.items[k].quantity * PriceOf(invoice.items[k].product_id)],
            Len(invoice.items))

\* C3: a create that passes validation stores and returns
\* total = tax + the sum over all request items of quantity * product price,
\* an item list naming a product twice counting it twice.
TotalIsTaxPlusItems ==
    Created =>
        /\ resp.body.total = ExpectedTotal(call.arg)
        /\ \E r \in db.invoices :
               r.id = resp.body.id /\ r.total = ExpectedTotal(call.arg)

\* a created invoice with tax and the same product in both of two items
TotalWitness ==
    /\ Created
    /\ call.arg.tax > 0
    /\ Len(call.arg.items) = 2
    /\ call.arg.items[1].product_id = call.arg.items[2].product_id

(* --------------- the validation rules, read off the request ------------ *)
HyphenCount(s) == Cardinality({i \in 1..Len(s) : s[i] = "-"})

BadDateShape(invoice) ==
    HyphenCount(invoice.issue_date) # 2 \/ HyphenCount(invoice.due_date) # 2

\* a sorts before b: a is a proper prefix of b, or they first differ at a
\* position where a has the smaller character
SortsBefore(a, b) ==
    \/ Len(a) < Len(b) /\ \A i \in 1..Len(a) : a[i] = b[i]
    \/ \E k \in 1..Len(a) :
          /\ k <= Len(b)
          /\ \A i \in 1..(k - 1) : a[i] = b[i]
          /\ Ord(a[k]) < Ord(b[k])

DueBeforeIssue(invoice) == SortsBefore(invoice.due_date, invoice.issue_date)

ClientMissing(invoice) == \A c \in db.clients : c.id # invoice.client_id

NoItems(invoice) == Len(invoice.items) = 0

NegativeTax(invoice) == invoice.tax < 0

BadQuantity(item) == item.quantity < 1

ProductMissing(item) == \A p \in db.products : p.id # item.product_id

BadItems(invoice) ==
    {k \in 1..Len(invoice.items) :
        BadQuantity(invoice.items[k]) \/ ProductMissing(invoice.items[k])}

\* the 1-based position of the first item that fails
FirstBadItem(invoice) == CHOOSE k \in BadItems(invoice) : \A j \in BadItems(invoice) : k <= j

Invalid(invoice) ==
    \/ BadDateShape(invoice)
    \/ DueBeforeIssue(invoice)
    \/ ClientMissing(invoice)
    \/ NoItems(invoice)
    \/ NegativeTax(invoice)
    \/ BadItems(invoice) # {}

\* C4: a create_invoice request that fails any validation check returns 400
\* and leaves the invoices and invoice_items tables as they were.
InvalidCreatePersistsNothing ==
    [][call'.op = "create_invoice" /\ Invalid(call'.arg) =>
         /\ resp'.status = 400
         /\ db'.invoices = db.invoices
         /\ db'.invoice_items = db.invoice_items]_vars

\* a rejected request on a store that holds an invoice and its items
InvalidCreateWitness ==
    /\ call.op = "create_invoice"
    /\ resp.status = 400
    /\ Invalid(call.arg)
    /\ db.invoices # {}
    /\ db.invoice_items # {}

QuantityMsg == "Item N: Quantity must be greater than 0"

ProductMsg == "Product N not found"

\* the reason of the first rule, in the documented order, that a request breaks
FirstReason(invoice) ==
    CASE BadDateShape(invoice) -> "Dates must be in format YYYY-MM-DD"
      [] ~BadDateShape(invoice) /\ DueBeforeIssue(invoice)
            -> "Due date must be after or equal to issue date"
      [] OTHER ->
            IF ClientMissing(invoice) THEN "Client N not found"
            ELSE IF NoItems(invoice) THEN "Invoice must have at least one item"
            ELSE IF NegativeTax(invoice) THEN "Tax cannot be negative"
            ELSE IF BadItems(invoice) = {} THEN ""
            ELSE IF BadQuantity(invoice.items[FirstBadItem(invoice)]) THEN QuantityMsg
            ELSE ProductMsg

RulesBroken(invoice) ==
    Cardinality({r \in {"shape", "order", "client", "items", "tax"} :
                    \/ r = "shape" /\ BadDateShape(invoice)
                    \/ r = "order" /\ DueBeforeIssue(invoice)
                    \/ r = "client" /\ ClientMissing(invoice)
                    \/ r = "items" /\ BadItems(invoice) # {}
                    \/ r = "tax" /\ NegativeTax(invoice)})

\* C6: a rejected create reports the reason of the first failing check in
\* the order date shape, due_date >= issue_date, client exists, items
\* non-empty, tax >= 0, then per item in request order quantity > 0 before
\* product exists.
FirstFailingCheckReported ==
    call.op = "create_invoice" /\ resp # Pending /\ Invalid(call.arg) =>
        resp.status = 400 /\ resp.detail[1] = FirstReason(call.arg)

\* a well-shaped, well-ordered request that breaks the client, tax and item
\* rules at once, its first item failing both item checks
FirstFailingCheckWitness ==
    /\ call.op = "create_invoice"
    /\ resp.status = 400
    /\ RulesBroken(call.arg) >= 3
    /\ ~BadDateShape(call.arg)
    /\ \E k \in 1..Len(call.arg.items) :
           BadQuantity(call.arg.items[k]) /\ ProductMissing(call.arg.items[k])

ItemRejected ==
    /\ call.op = "create_invoice"
    /\ resp.status = 400
    /\ resp.detail[1] \in {QuantityMsg, ProductMsg}

\* C7 as stated: whenever item validation fails, the error carries the
\* 1-based position of the first failing item, for a bad quantity and for a
\* missing product alike.
ItemErrorReportsPosition ==
    ItemRejected => resp.detail[2] = FirstBadItem(call.arg)

\* C7 as the code has it: a bad quantity is reported with the 1-based
\* position of the first failing item, a missing product with that item's
\* product_id.
ItemErrorReportsPositionOrProduct ==
    ItemRejected =>
        LET k == FirstBadItem(call.arg) IN
        IF BadQuantity(call.arg.items[k])
        THEN resp.detail = <<QuantityMsg, k>>
        ELSE resp.detail = <<ProductMsg, call.arg.items[k].product_id>>

\* a missing product at the second position, after a good first item: the
\* error carries the product_id, 99, not the position
ItemErrorWitness ==
    /\ ItemRejected
    /\ Len(call.arg.items) = 2
    /\ FirstBadItem(call.arg) = 2
    /\ ProductMissing(call.arg.items[2])
    /\ resp.detail = <<ProductMsg, 99>>

ItemsOf(invoice_id) == {ii \in db.invoice_items : ii.invoice_id = invoice_id}

\* C5: after a successful delete_invoice(id) no invoices row and no
\* invoice_items row of that id remains, and get_invoice(id) answers 404 from
\* then on (ids are never handed out again, so every id up to the counter
\* that has no row is a deleted one).
DeletedInvoiceStaysGone ==
    /\ call.op = "delete_invoice" /\ resp.status = 204 =>
          ~HasId(db.invoices, call.arg) /\ ItemsOf(call.arg) = {}
    /\ \A id \in 1..db.seq["invoices"] :
          ~HasId(db.invoices, id) =>
              /\ ItemsOf(id) = {}
              /\ call.op = "get_invoice" /\ call.arg = id => resp.status = 404

\* a get of a deleted id, answered while a later invoice exists
DeletedInvoiceWitness ==
    /\ call.op = "get_invoice"
    /\ resp.status = 404
    /\ call.arg < db.seq["invoices"]
    /\ db.invoices # {}
    /\ db.clients # {}

\* C8: get_invoice(id) returns the full invoice, with all its items, for
\* every id that has an invoices row, and 404 only when there is no such
\* row, in every reachable store, the seed unit's downgrade included.
GetReturnsEveryStoredInvoice ==
    call.op = "get_invoice" =>
        IF HasId(db.invoices, call.arg)
        THEN /\ resp.status = 200
             /\ resp.body.id = call.arg
             /\ Len(resp.body.items) = Cardinality(ItemsOf(call.arg))
        ELSE resp.status = 404

\* C9: after any sequence of creates and deletes, list_invoices returns
\* exactly one summary row per invoice in the store, in strictly descending
\* id order.
ListIsStoreNewestFirst ==
    call.op = "list_invoices" =>
        /\ resp.status = 200
        /\ Len(resp.body) = Cardinality(db.invoices)
        /\ \A i \in db.invoices : \E k \in 1..Len(resp.body) :
              /\ resp.body[k].id = i.id
              /\ resp.body[k].invoice_no = i.invoice_no
              /\ resp.body[k].issue_date = i.issue_date
              /\ resp.body[k].due_date = i.due_date
              /\ resp.body[k].total = i.total
              /\ \E c \in db.clients :
                    c.id = i.client_id /\ c.name = resp.body[k].client_name
        /\ \A k \in 1..(Len(resp.body) - 1) : resp.body[k].id > resp.body[k + 1].id

\* a list of the two invoices left of three created
ListWitness ==
    /\ call.op = "list_invoices"
    /\ resp.status = 200
    /\ Len(resp.body) = 2
    /\ db.seq["invoices"] = 3

(* ===================== properties of the migrations ==================== *)
\* the tables a unit's statements write
Needs(m) == IF m = M006 THEN {"products", "clients"} ELSE {}

UpgradeOnce(d, m) == UpgradeTxn(d, m).db

\* C10: an upgrade whose name is in the ledger changes nothing; otherwise
\* (the tables it writes being there) it applies the unit and adds its one
\* ledger row, the seed unit adding its 8 products and 5 clients; and
\* upgrading twice in a row leaves what upgrading once leaves.
UpgradeIdempotent ==
    /\ [](\A m \in Units : UpgradeOnce(UpgradeOnce(db, m), m) = UpgradeOnce(db, m))
    /\ [][call'.op = "upgrade" =>
            LET m == call'.arg IN
            /\ m \in db.ledger => db' = db
            /\ m \notin db.ledger /\ Needs(m) \subseteq db.tables =>
                  /\ db'.ledger = db.ledger \cup {m}
                  /\ m # M006 => db'.tables = db.tables \cup {TableOf(m)}
                  /\ m = M006 =>
                        /\ Cardinality(db'.products) = Cardinality(db.products) + 8
                        /\ Cardinality(db'.clients) = Cardinality(db.clients) + 5]_vars

\* the seed unit run again on a seeded database
UpgradeWitness ==
    /\ call = [op |-> "upgrade", arg |-> M006]
    /\ resp.detail[1] = "already applied"
    /\ Cardinality(db.products) = 8
    /\ Cardinality(db.clients) = 5

(* ===================== properties of concurrent creates ================ *)
\* p and q both read the same next number, and p's invoice is committed
LostTo(q, p) ==
    /\ p # q
    /\ conn[p].pc = "done" /\ conn[p].resp.status = 201
    /\ conn[q].invoice_no = conn[p].invoice_no
    /\ \E r \in db.invoices :
          r.id = conn[p].resp.body.id /\ r.invoice_no = conn[p].invoice_no

\* C11: of two interleaved creates that read the same maximum number at most
\* one commits: no two invoices rows ever share an invoice_no, and the one
\* that loses ends with the 500 database error, its step leaving the store
\* as it was (neither its invoice row nor item rows).
OneOfTwoRacingCreatesCommits ==
    /\ [](\A r1 \in db.invoices : \A r2 \in db.invoices :
             r1.invoice_no = r2.invoice_no => r1 = r2)
    /\ [][\A q \in Procs :
             (\E p \in Procs : LostTo(q, p)) /\ conn[q].pc = "read"
                 /\ conn'[q].pc # "read" =>
                    /\ conn'[q].pc = "done"
                    /\ conn'[q].resp = DatabaseError
                    /\ db' = db]_vars

\* both requests finished while the winner's invoice is in the store: the
\* winner with 201, the loser, which had read the same number, with 500
RacingCreatesWitness ==
    \E p \in Procs : \E q \in Procs :
        /\ LostTo(q, p)
        /\ conn[q].pc = "done"
        /\ conn[q].resp.status = 500
        /\ Cardinality(db.invoices) = 1

(* ========================= properties of snapshots ===================== *)
StoredInvoice(id) == CHOOSE r \in db.invoices : r.id = id

\* C12: an invoice's address and each item's unit_price and subtotal are the
\* client's address and the product's price when the invoice is created;
\* a later change of the address or of the price leaves the stored rows as
\* they are, and get_invoice returns the stored values.
SnapshotsFrozen ==
    /\ [](call.op = "get_invoice" /\ resp.status = 200 =>
            /\ resp.body.address = StoredInvoice(call.arg).address
            /\ Len(resp.body.items) = Cardinality(ItemsOf(call.arg))
            /\ \A k \in 1..Len(resp.body.items) : \E ii \in ItemsOf(call.arg) :
                  /\ ii.id = resp.body.items[k].id
                  /\ ii.unit_price = resp.body.items[k].unit_price
                  /\ ii.subtotal = resp.body.items[k].subtotal)
    /\ [][call'.op = "create_invoice" /\ resp'.status = 201 =>
            LET invoice == call'.arg
                id == resp'.body.id
                new == {ii \in db'.invoice_items : ii.invoice_id = id}
            IN /\ \E r \in db'.invoices \ db.invoices :
                     /\ r.id = id
                     /\ \E c \in db.clients :
                           c.id = invoice.client_id /\ r.address = c.address
                     /\ resp'.body.address = r.address
               /\ Cardinality(new) = Len(invoice.items)
               /\ \A ii \in new : \E p \in db.products :
                     /\ p.id = ii.product_id
                     /\ ii.unit_price = p.price
                     /\ ii.subtotal = p.price * ii.quantity]_vars
    /\ [][call'.op \in {"change_price", "change_address"} =>
            db'.invoices = db.invoices /\ db'.invoice_items = db.invoice_items]_vars

\* a get of an invoice whose client has moved and whose product's price has
\* changed since it was created
SnapshotsWitness ==
    /\ call.op = "get_invoice"
    /\ resp.status = 200
    /\ resp.body.address # resp.body.client.address
    /\ \E k \in 1..Len(resp.body.items) : \E p \in db.products :
          p.id = resp.body.items[k].product_id /\ p.price # resp.body.items[k].unit_price

RECURSIVE SumOf(_)
\* the sum of the subtotals of a set of item rows
SumOf(rows) ==
    IF rows = {} THEN 0
    ELSE LET r == CHOOSE x \in rows : TRUE IN r.subtotal + SumOf(rows \ {r})

\* C13: in every store reached through creates and deletes, each invoice
\* has at least one item row and its total is its tax plus the sum of the
\* stored subtotals of its own items, also when a product's price changes
\* between the create's lookup for the total and its lookup for the item row.
TotalMatchesStoredItems ==
    \A i \in db.invoices :
        /\ ItemsOf(i.id) # {}
        /\ i.total = i.tax + SumOf(ItemsOf(i.id))

(* ========================== properties of delete ======================= *)
\* C14: on the invoices table, delete_invoice(id) for an id without a row
\* answers 404 and leaves invoices and invoice_items as they were, item rows
\* carrying that invoice_id included; a delete of an existing id answers 204
\* and leaves every other invoice and every other invoice's items as they
\* were.
DeleteTouchesOnlyItsInvoice ==
    [][call'.op = "delete_invoice" /\ "invoices" \in db.tables =>
          LET id == call'.arg IN
          IF \A i \in db.invoices : i.id # id
          THEN /\ resp'.status = 404
               /\ db'.invoices = db.invoices
               /\ db'.invoice_items = db.invoice_items
          ELSE /\ resp'.status = 204
               /\ db'.invoices = {i \in db.invoices : i.id # id}
               /\ db'.invoice_items = {ii \in db.invoice_items : ii.invoice_id # id}]_vars

\* a delete answered 404 for an id whose item rows outlived a drop of the
\* invoices table, while another invoice and its items are in the store
DeleteWitness ==
    /\ call.op = "delete_invoice"
    /\ resp.status = 404
    /\ ItemsOf(call.arg) # {}
    /\ \E i \in db.invoices : ItemsOf(i.id) # {}

====
